---- MODULE Spec2Model ----
(***************************************************************************)
(* A model of src/server.js: the import rewrite policy handed to esbuild,  *)
(* the startup sequence of start(), and the request handler of the         *)
(* development proxy server with the streams it pipes.                      *)
(*                                                                         *)
(* The specifications share the variables:                                 *)
(*   SpecStart    start() invoked twice; port selection, serve, listen.    *)
(*   Spec         the request handler of one session that is Serving.      *)
(*   FairSpec     Spec with the fairness of node's event loop.             *)
(*   SpecResolve  esbuild's onResolve dispatch over the plugins.           *)
(*   SpecEntry    bundle() and start() over file systems and options.      *)
(*   SpecLife     one start() followed by the requests it serves.          *)
(*   SpecPlugin   the generated Plugin class, with overlapping renders.    *)
(***************************************************************************)
EXTENDS Naturals, Sequences, FiniteSets

VARIABLES
    bound,      \* port -> who holds it (the operating system's view)
    lockMode,   \* whether the installed get-port locks the ports it returned
    locked,     \* ports get-port has handed out in this process
    sess,       \* session -> the locals of one start() invocation
    alive,      \* the node process is running
    inbound,    \* request id -> the inbound request (req), or NoReq
    inState,    \* request id -> state of the inbound body stream
    fwd,        \* request id -> the requests opened to the internal bundler
    upstream,   \* request id -> the internal bundler's response (proxyRes)
    upState,    \* request id -> state of that response's stream
    upRead,     \* request id -> chunks of it read so far
    res,        \* request id -> what was written to the client (res)
    rw,         \* the import rewrite policy's input and result
    fs,         \* the working directory: a listing and the files that do not build
    bd,         \* the locals and outcome of one bundle() invocation
    pl          \* the generated bootstrap Plugin at run time in the browser

vars == <<bound, lockMode, locked, sess, alive,
          inbound, inState, fwd, upstream, upState, upRead, res, rw, fs, bd, pl>>
startVars == <<bound, lockMode, locked, sess, alive>>
reqVars == <<inbound, inState, fwd, upstream, upState, upRead, res>>

(***************************************************************************)
(* Bounds                                                                  *)
(***************************************************************************)
NumEphemeral == 4   \* ports the operating system may hand out for port 0
MaxOther == 2       \* ports other processes of the host may come to hold
MaxSpecLen == 3     \* tokens in a module specifier

(***************************************************************************)
(* Ports and sessions                                                      *)
(***************************************************************************)
PreferredProxyPort == 2222
PreferredEsbuildPort == 2221

Sessions == {1, 2}
Ephemeral == {PreferredProxyPort + i : i \in 1..NumEphemeral}
Ports == {PreferredEsbuildPort, PreferredProxyPort} \cup Ephemeral

NoPort == PreferredProxyPort - PreferredProxyPort
NoSession == NoPort
Free == <<NoSession, "free">>
Other == <<NoSession, "other">>
EsbuildHost == "0.0.0.0"

FreePorts == {p \in Ports : bound[p] = Free}

\* get-port: the preferred port when it can be bound now (and, with the lock,
\* was not handed out before), otherwise a port the operating system assigns
\* for port 0. The check binds and releases: nothing stays bound.
GetPortResults(preferred) ==
    LET usable == {p \in FreePorts : ~(lockMode /\ p \in locked)}
    IN  IF preferred \in usable THEN {preferred}
        ELSE usable \cap Ephemeral

CanBindDespiteUse(p) == TRUE

\* bind(2): a port is bound by one listener at a time
CanBind(p) == bound[p] = Free

(***************************************************************************)
(* Entry-point resolution: the directory listing, path.extname, fast-glob  *)
(***************************************************************************)
\* File names as tokens: the part before the first inner ".", then each
\* ".part"; a name that starts with its "." is one token
ExtTokens == {".ts", ".js", ".d", ".md"}
FileA == <<"a", ".ts">>
FileB == <<"b", ".js">>
FileC == <<"c", ".d", ".ts">>
FileDot == <<".ts">>
FileReadme == <<"readme", ".md">>

PluginDir == "plugins"
MissingDir == "missing"

\* what readdir may return for the plugin directory
Listings ==
    { <<>>,
      <<FileReadme, FileDot>>,
      <<FileB, FileA>>,
      <<FileA, FileB, FileC, FileDot, FileReadme>> }

\* the sets of files esbuild reports an error for
BrokenSets == { {}, {FileA}, {FileB} }

\* path.extname(filename): from the last "." on, "" when the name has no "."
\* or only starts with one
extname(filename) ==
    IF Len(filename) >= 2 THEN filename[Len(filename)] ELSE ""

\* path.join(dir, filename)
Join(dir, filename) == <<dir, "/">> \o filename

\* ext || [".js", ".ts"]
ExtOrDefault(ext) == IF ext.given THEN ext.list ELSE <<".js", ".ts">>

\* arr.includes(x)
Includes(arr, x) == \E i \in 1..Len(arr) : arr[i] = x

\* arr.filter(keep).map(f), in order
RECURSIVE FilterMap(_, _, _)
FilterMap(arr, ext, dir) ==
    IF arr = <<>> THEN <<>>
    ELSE (IF Includes(ext, extname(Head(arr))) THEN <<Join(dir, Head(arr))>> ELSE <<>>)
         \o FilterMap(Tail(arr), ext, dir)

\* a glob pattern dir/*ext (ext "*" for any name) matches the files of dir
\* whose name does not start with "." and ends with ext
GlobMatches(pattern, filename) ==
    /\ filename[1] \notin ExtTokens
    /\ pattern.ext = "*" \/ extname(filename) = pattern.ext

RECURSIVE GlobOne(_, _, _)
GlobOne(pattern, listing, seen) ==
    IF listing = <<>> \/ pattern.dir # PluginDir THEN <<>>
    ELSE LET f == Join(pattern.dir, Head(listing))
             rest == GlobOne(pattern, Tail(listing), seen)
         IN  IF GlobMatches(pattern, Head(listing)) /\ ~Includes(seen, f)
             THEN <<f>> \o rest ELSE rest

\* fastGlob(patterns): the files matching some pattern, each once
RECURSIVE GlobFrom(_, _, _)
GlobFrom(patterns, listing, seen) ==
    IF patterns = <<>> THEN seen
    ELSE GlobFrom(Tail(patterns), listing,
                  seen \o GlobOne(Head(patterns), listing, seen))

fastGlob(patterns, listing) == GlobFrom(patterns, listing, <<>>)

Pattern(dir, ext) == [dir |-> dir, ext |-> ext]

\* the option values start() and bundle() are called with; dir "" stands for
\* a dir that is not given
DirOptions == {"", PluginDir, MissingDir}
ExtOptions ==
    { [given |-> FALSE, list |-> <<>>],
      [given |-> TRUE, list |-> <<".ts">>],
      [given |-> TRUE, list |-> <<>>] }
GlobOptions ==
    { <<>>,
      <<Pattern(PluginDir, ".ts")>>,
      <<Pattern(PluginDir, ".js"), Pattern(PluginDir, "*")>>,
      <<Pattern(MissingDir, "*")>> }

DefaultOptions ==
    [dir |-> "", ext |-> [given |-> FALSE, list |-> <<>>],
     glob |-> <<Pattern(PluginDir, ".ts")>>, preact |-> FALSE]

DefaultFs == [listing |-> <<FileA, FileB, FileC, FileDot, FileReadme>>, broken |-> {}]

GlobWinsEntryPoints(opts, listing) ==
    IF opts.glob # <<>> \/ opts.dir = "" THEN fastGlob(opts.glob, listing)
    ELSE FilterMap(listing, ExtOrDefault(opts.ext), opts.dir)

\* lines 91-110: directory mode when dir is given, else the glob expansion
EntryPoints(opts, listing) ==
    IF opts.dir # ""
    THEN FilterMap(listing, ExtOrDefault(opts.ext), opts.dir)
    ELSE fastGlob(opts.glob, listing)

\* fs.readdir(pluginDir) rejects for a directory that does not exist
ReaddirFails(opts) == opts.dir = MissingDir

\* getDefaultConfig()
getDefaultConfig == [bundle |-> TRUE, format |-> "esm", target |-> <<"es2020">>]

NoConfig == [port |-> NoPort]

SessionWith(opts) ==
    [pc |-> "idle", proxyPort |-> NoPort, esbuildPort |-> NoPort,
     host |-> "", port |-> NoPort, wasFree |-> {},
     opts |-> opts, entryPoints |-> <<>>, serveConfig |-> NoConfig]

InitSession == SessionWith(DefaultOptions)

\* start() is invoked
Start(s) ==
    /\ alive
    /\ sess[s].pc = "idle"
    /\ sess' = [sess EXCEPT ![s].pc = "getProxyPort"]
    /\ UNCHANGED <<bound, lockMode, locked, alive>>
    /\ UNCHANGED <<reqVars, rw, fs, bd, pl>>

\* const proxyPort = await getPort({ port: 2222 })
GetProxyPort(s) ==
    /\ alive
    /\ sess[s].pc = "getProxyPort"
    /\ \E p \in GetPortResults(PreferredProxyPort) :
          /\ sess' = [sess EXCEPT ![s].pc = "getEsbuildPort", ![s].proxyPort = p]
          /\ locked' = locked \cup {p}
    /\ UNCHANGED <<bound, lockMode, alive>>
    /\ UNCHANGED <<reqVars, rw, fs, bd, pl>>

\* const esbuildPort = await getPort({ port: 2221 })
GetEsbuildPort(s) ==
    /\ alive
    /\ sess[s].pc = "getEsbuildPort"
    /\ \E p \in GetPortResults(PreferredEsbuildPort) :
          /\ sess' = [sess EXCEPT ![s].pc = "entryPoints", ![s].esbuildPort = p]
          /\ locked' = locked \cup {p}
    /\ UNCHANGED <<bound, lockMode, alive>>
    /\ UNCHANGED <<reqVars, rw, fs, bd, pl>>

\* entry-point resolution (readdir or fast-glob), between the port queries and serve
ResolveEntryPoints(s) ==
    /\ alive
    /\ sess[s].pc = "entryPoints"
    /\ IF sess[s].opts.dir # "" /\ ReaddirFails(sess[s].opts)
       THEN sess' = [sess EXCEPT ![s].pc = "rejected"]
       ELSE sess' = [sess EXCEPT ![s].pc = "serve",
                                 ![s].entryPoints = EntryPoints(sess[s].opts, fs.listing)]
    /\ UNCHANGED <<bound, lockMode, locked, alive>>
    /\ UNCHANGED <<reqVars, rw, fs, bd, pl>>

\* esbuildServeConfig and esbuildConfig, lines 112-121
ServeConfig(s) ==
    [port |-> sess[s].esbuildPort, sourcemap |-> TRUE,
     entryPoints |-> sess[s].entryPoints,
     bundle |-> getDefaultConfig.bundle, format |-> getDefaultConfig.format,
     target |-> getDefaultConfig.target, preact |-> sess[s].opts.preact]

\* const { host, port } = await esbuild.serve({ port: esbuildPort }, ...):
\* esbuild listens on the port it was given, or the promise rejects
Serve(s) ==
    /\ alive
    /\ sess[s].pc = "serve"
    /\ LET p == sess[s].esbuildPort IN
       \/ /\ CanBind(p)
          /\ bound' = [bound EXCEPT ![p] = <<s, "esbuild">>]
          /\ sess' = [sess EXCEPT ![s].pc = "listen", ![s].host = EsbuildHost,
                                  ![s].port = p,
                                  ![s].serveConfig = ServeConfig(s),
                                  ![s].wasFree = IF bound[p] = Free THEN {"internal"} ELSE {}]
       \/ /\ ~CanBind(p)
          /\ sess' = [sess EXCEPT ![s].pc = "rejected"]
          /\ UNCHANGED bound
    /\ UNCHANGED <<lockMode, locked, alive>>
    /\ UNCHANGED <<reqVars, rw, fs, bd, pl>>

\* proxyServer.listen(proxyPort, ...): binds, or emits 'error' (EADDRINUSE) on a
\* server with no 'error' listener, which ends the process
Listen(s) ==
    /\ alive
    /\ sess[s].pc = "listen"
    /\ LET p == sess[s].proxyPort IN
       \/ /\ CanBind(p)
          /\ bound' = [bound EXCEPT ![p] = <<s, "proxy">>]
          /\ sess' = [sess EXCEPT ![s].pc = "Serving",
                                  ![s].wasFree = IF bound[p] = Free THEN @ \cup {"public"} ELSE @]
          /\ UNCHANGED alive
       \/ /\ ~CanBind(p)
          /\ sess' = [sess EXCEPT ![s].pc = "listenFailed"]
          /\ alive' = FALSE
          /\ UNCHANGED bound
    /\ UNCHANGED <<lockMode, locked>>
    /\ UNCHANGED <<reqVars, rw, fs, bd, pl>>

\* another process of the host starts listening on a port
OtherProcessBinds ==
    /\ Cardinality({p \in Ports : bound[p] = Other}) < MaxOther
    /\ \E p \in FreePorts : bound' = [bound EXCEPT ![p] = Other]
    /\ UNCHANGED <<lockMode, locked, sess, alive>>
    /\ UNCHANGED <<reqVars, rw, fs, bd, pl>>

(***************************************************************************)
(* Inbound requests and the internal bundler's responses                   *)
(***************************************************************************)
ReqIds == {1, 2}
NoReq == [method |-> "none"]
NoResp == [status |-> NoPort]

\* Request targets are in origin-form, as tokens: path segments, then "?" and
\* the query with its "&" and "=" separators.
HostHeader == <<"host", "127.0.0.1:2222">>

Requests ==
    { [method |-> "GET", url |-> <<"/foo", "/bar", "?", "dev", "=", "1">>,
       headers |-> <<HostHeader>>, body |-> <<>>],
      [method |-> "POST", url |-> <<"/", "?", "dev">>,
       headers |-> <<HostHeader>>, body |-> <<"b1">>],
      [method |-> "GET", url |-> <<"/main.js", "?", "v", "=", "1", "&", "dev", "=">>,
       headers |-> <<HostHeader, <<"accept", "*/*">> >>, body |-> <<>>],
      [method |-> "GET", url |-> <<"/main.js">>,
       headers |-> <<HostHeader, <<"accept", "*/*">> >>, body |-> <<>>],
      [method |-> "POST", url |-> <<"/main.js", "?", "v", "=", "dev">>,
       headers |-> <<HostHeader>>, body |-> <<"b1", "b2">>],
      [method |-> "PUT", url |-> <<"/dev", "?", "device", "=", "1">>,
       headers |-> <<HostHeader>>, body |-> <<"b2">>] }

\* What the internal bundler may answer: status, raw header lines, body chunks
Responses ==
    { [status |-> 200, raw |-> << <<"Content-Type", "text/javascript">> >>,
       body |-> <<"c1", "c2">>],
      [status |-> 404, raw |-> << <<"Access-Control-Allow-Origin", "http://127.0.0.1">>,
                                  <<"Content-Type", "text/plain">> >>,
       body |-> <<>>],
      [status |-> 200, raw |-> << >>, body |-> <<"c2">>] }

(***************************************************************************)
(* new URL(req.url, base): pathname and searchParams                       *)
(***************************************************************************)
\* index of the first token equal to t, or 0
RECURSIVE IndexFrom(_, _, _)
IndexFrom(seq, t, i) ==
    IF i > Len(seq) THEN 0
    ELSE IF seq[i] = t THEN i
    ELSE IndexFrom(seq, t, i + 1)

IndexOf(seq, t) == IndexFrom(seq, t, 1)

\* the pieces of seq between the separators sep
RECURSIVE Split(_, _)
Split(seq, sep) ==
    LET i == IndexOf(seq, sep)
    IN  IF i = 0 THEN <<seq>>
        ELSE <<SubSeq(seq, 1, i - 1)>> \o Split(SubSeq(seq, i + 1, Len(seq)), sep)

\* name=value: the name is what precedes the first "="
ParamName(piece) ==
    LET i == IndexOf(piece, "=")
    IN  IF i = 0 THEN piece ELSE SubSeq(piece, 1, i - 1)

ParseUrl(url) ==
    LET q == IndexOf(url, "?")
        query == IF q = 0 THEN <<>> ELSE SubSeq(url, q + 1, Len(url))
        pieces == IF query = <<>> THEN <<>> ELSE Split(query, "&")
    IN  [pathname |-> IF q = 0 THEN url ELSE SubSeq(url, 1, q - 1),
         searchParams |-> [i \in 1..Len(pieces) |-> ParamName(pieces[i])]]

HasFirstParam(searchParams, name) ==
    Len(searchParams) > 0 /\ searchParams[1] = <<name>>

\* searchParams.has(name)
HasParam(searchParams, name) ==
    \E i \in 1..Len(searchParams) : searchParams[i] = <<name>>

(***************************************************************************)
(* templateForPathname: the bootstrap module's text, line by line          *)
(***************************************************************************)
templateForPathname(pathname) ==
    << "// Development plugin with auto-reload",
       "class Plugin", "{",
       "constructor() { this.plugin = null; }",
       "async render(container) {",
       "const cacheBust = Date.now();",
       "const modulePath = ", "/PluginTemplate.js?", " + cacheBust;",
       "const { default: RevealMarket } = await import(modulePath);",
       "this.plugin = new RevealMarket();",
       "await this.plugin?.render?.(container);",
       "}",
       "draw(ctx) { this.plugin?.draw?.(ctx); }",
       "destroy() { this.plugin?.destroy?.(); }",
       "}",
       "export default Plugin;" >>

Contains(text, piece) == \E i \in 1..Len(text) : text[i] = piece

(***************************************************************************)
(* Headers                                                                 *)
(***************************************************************************)
\* node lower-cases the names of the headers it parsed
Lower(name) ==
    CASE name = "Content-Type" -> "content-type"
      [] name = "Access-Control-Allow-Origin" -> "access-control-allow-origin"
      [] OTHER -> name

\* proxyRes.headers: an object keyed by the lower-cased names
IncomingHeaders(raw) ==
    LET names == {Lower(raw[i][1]) : i \in 1..Len(raw)}
    IN  [n \in names |-> LET i == CHOOSE i \in 1..Len(raw) : Lower(raw[i][1]) = n
                         IN  raw[i][2]]

SpreadEarlierWins(a, b) ==
    [n \in DOMAIN a \cup DOMAIN b |-> IF n \in DOMAIN a THEN a[n] ELSE b[n]]

\* { ...a, ...b }: later keys take precedence
Spread(a, b) ==
    [n \in DOMAIN a \cup DOMAIN b |-> IF n \in DOMAIN b THEN b[n] ELSE a[n]]

CorsHeader == [n \in {"access-control-allow-origin"} |-> "*"]

DevStatus == 200

DevHeaders ==
    Spread([n \in {"content-type"} |-> "application/javascript"], CorsHeader)

(***************************************************************************)
(* The request handler of the proxy server and the streams it pipes        *)
(***************************************************************************)
Serving == 1    \* the session whose proxy server handles the requests

NoRes == [heads |-> <<>>, body |-> <<>>, state |-> "none"]

\* options of http.request: the session's host and port, and the inbound
\* request's url, method and headers
RequestOptionsPathOnly(s, q) ==
    [hostname |-> sess[s].host, port |-> sess[s].port,
     path |-> ParseUrl(q.url).pathname, method |-> q.method, headers |-> q.headers]

RequestOptions(s, q) ==
    [hostname |-> sess[s].host, port |-> sess[s].port,
     path |-> q.url, method |-> q.method, headers |-> q.headers]

\* the head the proxyReq callback writes: proxyRes.statusCode and
\* { ...proxyRes.headers, "access-control-allow-origin": "*" }
ProxyHeadFixedStatus(resp) ==
    [status |-> DevStatus, headers |-> Spread(IncomingHeaders(resp.raw), CorsHeader)]

ProxyHead(resp) ==
    [status |-> resp.status, headers |-> Spread(IncomingHeaders(resp.raw), CorsHeader)]

\* the headers of the forwarded request reach the bundler with the first write
\* or with end()
Flushed(f) == f.body # <<>> \/ f.ended

\* the process ends: every response still open is cut with its connection
Crash ==
    /\ alive' = FALSE
    /\ res' = [r \in ReqIds |-> IF res[r].state = "open"
                                THEN [res[r] EXCEPT !.state = "aborted"]
                                ELSE res[r]]

ListeningEarly(s) == sess[s].pc \in {"serve", "listen", "Serving"}

\* proxyServer.listen(proxyPort, ...) is the last statement of start: the
\* server takes requests once it is bound
Listening(s) == sess[s].pc = "Serving"

\* the (req, res) callback of http.createServer, lines 125-156
HandleRequest(r, q) ==
    /\ alive
    /\ Listening(Serving)
    /\ inbound[r] = NoReq
    /\ \A k \in ReqIds : k < r => inbound[k] # NoReq    \* ids in order of arrival
    /\ inbound' = [inbound EXCEPT ![r] = q]
    /\ LET u == ParseUrl(q.url) IN
       IF HasParam(u.searchParams, "dev")
       THEN /\ res' = [res EXCEPT ![r] =
                         [heads |-> <<[status |-> DevStatus, headers |-> DevHeaders]>>,
                          body |-> templateForPathname(u.pathname),
                          state |-> "ended"]]
            /\ UNCHANGED <<fwd, inState>>
       ELSE /\ fwd' = [fwd EXCEPT ![r] =
                         Append(@, [options |-> RequestOptions(Serving, q),
                                    body |-> <<>>, ended |-> FALSE])]
            /\ inState' = [inState EXCEPT ![r] = "flowing"]
            /\ res' = [res EXCEPT ![r].state = "open"]
    /\ UNCHANGED <<upstream, upState, upRead, alive>>
    /\ UNCHANGED <<bound, lockMode, locked, sess, rw, fs, bd, pl>>

\* which chunk of the inbound body req.pipe writes next
NextChunk(r) == Len(fwd[r][1].body) + 1

\* req.pipe(proxyReq): a chunk of the inbound body is written to proxyReq
PipeRequestChunk(r) ==
    /\ alive
    /\ inState[r] = "flowing"
    /\ upState[r] \notin {"closed", "error"}
    /\ NextChunk(r) <= Len(inbound[r].body)
    /\ fwd' = [fwd EXCEPT ![r][1].body = Append(@, inbound[r].body[NextChunk(r)])]
    /\ UNCHANGED <<inbound, inState, upstream, upState, upRead, res, alive>>
    /\ UNCHANGED <<bound, lockMode, locked, sess, rw, fs, bd, pl>>

\* req.pipe(proxyReq, { end: true }): the inbound body ends, proxyReq.end()
PipeRequestEnd(r) ==
    /\ alive
    /\ inState[r] = "flowing"
    /\ upState[r] \notin {"closed", "error"}
    /\ NextChunk(r) > Len(inbound[r].body)
    /\ fwd' = [fwd EXCEPT ![r][1].ended = TRUE]
    /\ inState' = [inState EXCEPT ![r] = "ended"]
    /\ UNCHANGED <<inbound, upstream, upState, upRead, res, alive>>
    /\ UNCHANGED <<bound, lockMode, locked, sess, rw, fs, bd, pl>>

\* the internal bundler answers: the callback of http.request, lines 146-152
ResponsePendingOrFlowing(r) == upState[r] \in {"none", "flowing"}

\* http.request invokes its callback with the 'response' event, which a
\* request emits once
ResponsePending(r) == upState[r] = "none"

InternalResponds(r, resp) ==
    /\ alive
    /\ fwd[r] # <<>>
    /\ Flushed(fwd[r][1])
    /\ ResponsePending(r)
    /\ upstream' = [upstream EXCEPT ![r] = resp]
    /\ upState' = [upState EXCEPT ![r] = "flowing"]
    /\ res' = [res EXCEPT ![r].heads = Append(@, ProxyHead(resp))]
    /\ UNCHANGED <<inbound, inState, fwd, upRead, alive>>
    /\ UNCHANGED <<bound, lockMode, locked, sess, rw, fs, bd, pl>>

CanFlowInOrder(r) ==
    /\ upState[r] = "flowing"
    /\ res[r].state = "open"
    /\ \A k \in ReqIds : k < r => res[k].state # "open"

\* proxyRes.pipe(res) moves data while proxyRes flows and res is open; nothing
\* of another request is consulted
CanFlow(r) ==
    /\ upState[r] = "flowing"
    /\ res[r].state = "open"

\* proxyRes.pipe(res): a chunk of the internal response is written to res
PipeResponseChunk(r) ==
    /\ alive
    /\ CanFlow(r)
    /\ upRead[r] < Len(upstream[r].body)
    /\ res' = [res EXCEPT ![r].body = Append(@, upstream[r].body[upRead[r] + 1])]
    /\ upRead' = [upRead EXCEPT ![r] = @ + 1]
    /\ UNCHANGED <<inbound, inState, fwd, upstream, upState, alive>>
    /\ UNCHANGED <<bound, lockMode, locked, sess, rw, fs, bd, pl>>

\* proxyRes.pipe(res, { end: true }): the internal response ends, res.end()
PipeResponseEnd(r) ==
    /\ alive
    /\ CanFlow(r)
    /\ upRead[r] = Len(upstream[r].body)
    /\ upState' = [upState EXCEPT ![r] = "ended"]
    /\ res' = [res EXCEPT ![r].state = "ended"]
    /\ UNCHANGED <<inbound, inState, fwd, upstream, upRead, alive>>
    /\ UNCHANGED <<bound, lockMode, locked, sess, rw, fs, bd, pl>>

\* the internal bundler stops sending, with its connection left open
InternalStalls(r) ==
    /\ alive
    /\ fwd[r] # <<>>
    /\ upState[r] \in {"none", "flowing"}
    /\ upState' = [upState EXCEPT ![r] = "stalled"]
    /\ UNCHANGED <<inbound, inState, fwd, upstream, upRead, res, alive>>
    /\ UNCHANGED <<bound, lockMode, locked, sess, rw, fs, bd, pl>>

\* the connection to the internal bundler fails (refused, reset, hang up):
\* proxyReq emits 'error', it has no listener, the process ends
UpstreamError(r) ==
    /\ alive
    /\ fwd[r] # <<>>
    /\ upState[r] \in {"none", "flowing", "stalled"}
    /\ upState' = [upState EXCEPT ![r] = "error"]
    /\ Crash
    /\ UNCHANGED <<inbound, inState, fwd, upstream, upRead>>
    /\ UNCHANGED <<bound, lockMode, locked, sess, rw, fs, bd, pl>>

\* the internal bundler closes its connection inside a response, with body
\* bytes still to come: proxyRes is aborted; node either still emits 'end' on
\* it (res.end() follows from the pipe) or emits only 'close' (nothing ends
\* res), by its version
UpstreamClosed(r) ==
    /\ alive
    /\ upState[r] \in {"flowing", "stalled"}
    /\ upstream[r] # NoResp
    /\ upRead[r] < Len(upstream[r].body)
    /\ upState' = [upState EXCEPT ![r] = "closed"]
    /\ \/ UNCHANGED res
       \/ /\ res[r].state = "open"
          /\ res' = [res EXCEPT ![r].state = "ended"]
    /\ UNCHANGED <<inbound, inState, fwd, upstream, upRead, alive>>
    /\ UNCHANGED <<bound, lockMode, locked, sess, rw, fs, bd, pl>>

\* the client's connection fails inside a forwarded request: req and res are
\* closed, the pipes stop, proxyReq is left as it is
InboundError(r) ==
    /\ alive
    /\ res[r].state = "open"
    /\ inState' = [inState EXCEPT ![r] = IF @ = "flowing" THEN "aborted" ELSE @]
    /\ res' = [res EXCEPT ![r].state = "aborted"]
    /\ UNCHANGED <<inbound, fwd, upstream, upState, upRead, alive>>
    /\ UNCHANGED <<bound, lockMode, locked, sess, rw, fs, bd, pl>>

(***************************************************************************)
(* The import rewrite policy: the plugins of getExtraConfig and esbuild's  *)
(* dispatch of a module specifier over their onResolve callbacks           *)
(***************************************************************************)
\* Module specifiers as tokens; no string has two tokenisations
SpecTokens == {"http", "s", "://", "react", "-dom", "/test-utils", "/server", "ive"}

RECURSIVE SeqsOfLen(_, _)
SeqsOfLen(S, n) ==
    IF n = 0 THEN {<<>>}
    ELSE {Append(x, t) : x \in SeqsOfLen(S, n - 1), t \in S}

Specifiers == UNION {SeqsOfLen(SpecTokens, n) : n \in 1..MaxSpecLen}

IsPrefix(pre, seq) ==
    Len(pre) <= Len(seq) /\ SubSeq(seq, 1, Len(pre)) = pre

MatchesHttpsOnly(path) == IsPrefix(<<"http", "s", "://">>, path)

\* /^https?:\/\//
MatchesHttp(path) ==
    \/ IsPrefix(<<"http", "://">>, path)
    \/ IsPrefix(<<"http", "s", "://">>, path)

MatchesUnanchored(lit, path) == IsPrefix(lit, path)

\* /^literal$/
MatchesWhole(lit, path) == path = lit

PreactCompat == <<"node_modules", "/preact", "/compat">>
PreactTestUtils == <<"node_modules", "/preact", "/test-utils">>

NoResult == [path |-> <<>>, external |-> FALSE, matched |-> FALSE]

\* httpExternalResolver: one onResolve callback
httpExternalResolver ==
    << [name |-> "http-external", filter |-> "http"] >>

\* preactResolver: three onResolve callbacks, in the order of setup
preactResolver ==
    << [name |-> "preact", filter |-> "react-dom/test-utils"],
       [name |-> "preact", filter |-> "react-dom"],
       [name |-> "preact", filter |-> "react"] >>

\* getExtraConfig(preact).plugins, as the callbacks in registration order
getExtraConfig(preact) ==
    IF preact THEN httpExternalResolver \o preactResolver
    ELSE httpExternalResolver

\* whether a callback's filter matches the specifier
FilterMatches(cb, path) ==
    CASE cb.filter = "http" -> MatchesHttp(path)
      [] cb.filter = "react-dom/test-utils" ->
            MatchesWhole(<<"react", "-dom", "/test-utils">>, path)
      [] cb.filter = "react-dom" -> MatchesWhole(<<"react", "-dom">>, path)
      [] cb.filter = "react" -> MatchesWhole(<<"react">>, path)

\* what a callback returns for args.path
CallbackResult(cb, path) ==
    CASE cb.filter = "http" -> [path |-> path, external |-> TRUE, matched |-> TRUE]
      [] cb.filter = "react-dom/test-utils" ->
            [path |-> PreactTestUtils, external |-> FALSE, matched |-> TRUE]
      [] cb.filter = "react-dom" ->
            [path |-> PreactCompat, external |-> FALSE, matched |-> TRUE]
      [] cb.filter = "react" ->
            [path |-> PreactCompat, external |-> FALSE, matched |-> TRUE]

\* esbuild runs the callbacks in registration order; the first whose filter
\* matches and that returns a path settles the import
RECURSIVE OnResolve(_, _, _)
OnResolve(callbacks, path, i) ==
    IF i > Len(callbacks) THEN NoResult
    ELSE IF FilterMatches(callbacks[i], path) THEN CallbackResult(callbacks[i], path)
    ELSE OnResolve(callbacks, path, i + 1)

\* the policy's verdict on a specifier
Classify(result) ==
    IF ~result.matched THEN "unchanged"
    ELSE IF result.external THEN "externalize"
    ELSE "redirect"

IdleRw == [stage |-> "idle", path |-> <<>>, preact |-> FALSE,
           plugins |-> <<>>, result |-> NoResult]

\* getExtraConfig(preact) builds the plugin list of a build
Configure ==
    /\ rw.stage = "start"
    /\ rw' = [rw EXCEPT !.stage = "configured", !.plugins = getExtraConfig(rw.preact)]
    /\ UNCHANGED <<startVars, reqVars, fs, bd, pl>>

\* esbuild resolves one import of the build
ResolveImport ==
    /\ rw.stage = "configured"
    /\ rw' = [rw EXCEPT !.stage = "resolved",
                        !.result = OnResolve(rw.plugins, rw.path, 1)]
    /\ UNCHANGED <<startVars, reqVars, fs, bd, pl>>

(***************************************************************************)
(* bundle({ glob, preact, outdir }), lines 69-85                           *)
(***************************************************************************)
ExitFailure == 1

OutDir == "dist"

BundleOptions ==
    {[glob |-> g, preact |-> pr, outdir |-> OutDir] : g \in GlobOptions, pr \in BOOLEAN}

IdleBundle ==
    [pc |-> "idle", opts |-> [glob |-> <<>>, preact |-> FALSE, outdir |-> OutDir],
     entryPoints |-> <<>>, buildArgs |-> NoConfig, settled |-> "none",
     exited |-> FALSE, code |-> ExitFailure - ExitFailure, returned |-> "none"]

\* the argument of esbuild.build: entryPoints, outdir and both configs
BuildArgs(entryPoints, opts) ==
    [entryPoints |-> entryPoints, outdir |-> opts.outdir,
     bundle |-> getDefaultConfig.bundle, format |-> getDefaultConfig.format,
     target |-> getDefaultConfig.target, preact |-> opts.preact]

BuildFailsOnEmpty(entryPoints, broken) ==
    \/ entryPoints = <<>>
    \/ \E f \in broken : Includes(entryPoints, Join(PluginDir, f))

\* esbuild.build rejects when one of its entry points does not build; an
\* empty entry set builds nothing and resolves
BuildFails(entryPoints, broken) ==
    \E f \in broken : Includes(entryPoints, Join(PluginDir, f))

\* bundle is called
Bundle(opts) ==
    /\ bd.pc = "idle"
    /\ bd' = [bd EXCEPT !.pc = "glob", !.opts = opts]
    /\ UNCHANGED <<startVars, reqVars, rw, fs, pl>>

\* const entryPoints = await fastGlob(glob); then esbuild.build is called
BundleGlob ==
    /\ bd.pc = "glob"
    /\ LET entryPoints == fastGlob(bd.opts.glob, fs.listing) IN
       bd' = [bd EXCEPT !.pc = "build", !.entryPoints = entryPoints,
                        !.buildArgs = BuildArgs(entryPoints, bd.opts)]
    /\ UNCHANGED <<startVars, reqVars, rw, fs, pl>>

\* the promise of esbuild.build settles
BuildSettles ==
    /\ bd.pc = "build"
    /\ IF BuildFails(bd.buildArgs.entryPoints, fs.broken)
       THEN bd' = [bd EXCEPT !.pc = "catch", !.settled = "rejected"]
       ELSE bd' = [bd EXCEPT !.pc = "resolved", !.settled = "resolved"]
    /\ UNCHANGED <<startVars, reqVars, rw, fs, pl>>

\* after the try block the function ends: its promise resolves to undefined
BundleReturns ==
    /\ bd.pc = "resolved"
    /\ bd' = [bd EXCEPT !.pc = "returned", !.returned = "undefined"]
    /\ UNCHANGED <<startVars, reqVars, rw, fs, pl>>

OnBuildErrorSwallowed(b) == [b EXCEPT !.pc = "returned", !.returned = "undefined"]

\* catch (err) { console.error(...); process.exit(1); }
OnBuildError(b) == [b EXCEPT !.pc = "exited", !.exited = TRUE, !.code = ExitFailure]

BundleCatch ==
    /\ bd.pc = "catch"
    /\ bd' = OnBuildError(bd)
    /\ UNCHANGED <<startVars, reqVars, rw, fs, pl>>

(***************************************************************************)
(* The generated Plugin class (lines 166-183) at run time in the browser   *)
(***************************************************************************)
MaxCalls == 3       \* draw and destroy calls of the host

RenderCalls == {1, 2}
Times == {0, 1}     \* the values Date.now() takes
Null == MaxCalls - MaxCalls     \* null; instances are numbered from 1

\* the methods the default export of /PluginTemplate.js has when it is fetched
CapSets == { {"render", "draw", "destroy"}, {"render"}, {"draw"}, {} }
NoModule == {"not loaded"}

IdleCall == [pc |-> "idle", cacheBust |-> Null, modulePath |-> <<>>, instance |-> Null]

Event(op, call, instance) == [op |-> op, call |-> call, instance |-> instance]

\* constructor() { this.plugin = null; }
IdlePlugin ==
    [plugin |-> Null, clock |-> Null, calls |-> [c \in RenderCalls |-> IdleCall],
     instances |-> <<>>, modules |-> [t \in Times |-> NoModule],
     trace |-> <<>>, threw |-> FALSE, hostCalls |-> Null]

Has(p, instance, method) ==
    instance # Null /\ method \in p.instances[instance].caps

DirectCall(p, method) ==
    IF Has(p, p.plugin, method)
    THEN [p EXCEPT !.trace = Append(@, Event(method, Null, p.plugin))]
    ELSE [p EXCEPT !.threw = TRUE]

\* this.plugin?.method?.(...): the call is made when this.plugin is not null
\* and has the method, and nothing happens otherwise
OptionalCall(p, method) ==
    IF Has(p, p.plugin, method)
    THEN [p EXCEPT !.trace = Append(@, Event(method, Null, p.plugin))]
    ELSE p

KeepFirstHeld(p, instance) ==
    IF p.plugin = Null THEN [p EXCEPT !.plugin = instance] ELSE p

\* this.plugin = new RevealMarket()
AssignHeld(p, instance) == [p EXCEPT !.plugin = instance]

\* time passes in the browser
Tick ==
    /\ pl.clock + 1 \in Times
    /\ pl' = [pl EXCEPT !.clock = @ + 1]
    /\ UNCHANGED <<startVars, reqVars, rw, fs, bd>>

\* render(container) up to its first await: cacheBust, modulePath, import()
Render(c) ==
    /\ pl.calls[c].pc = "idle"
    /\ \A k \in RenderCalls : k < c => pl.calls[k].pc # "idle"
    /\ pl' = [pl EXCEPT !.calls[c] =
                          [pc |-> "importing", cacheBust |-> pl.clock,
                           modulePath |-> <<"/PluginTemplate.js?", pl.clock>>,
                           instance |-> Null],
                        !.trace = Append(@, Event("import", c, Null))]
    /\ UNCHANGED <<startVars, reqVars, rw, fs, bd>>

\* the import resolves: the module of this path (fetched now unless the module
\* map has it), new RevealMarket(), the assignment to this.plugin and the call
\* of the inner render happen without an await in between
ImportCompletes(c) ==
    /\ pl.calls[c].pc = "importing"
    /\ LET t == pl.calls[c].cacheBust
           id == Len(pl.instances) + 1
       IN  \E caps \in CapSets :
              /\ pl.modules[t] # NoModule => caps = pl.modules[t]
              /\ LET created ==
                        [pl EXCEPT !.modules[t] = caps,
                                   !.instances = Append(@, [caps |-> caps, by |-> c]),
                                   !.calls[c].instance = id,
                                   !.calls[c].pc = "awaiting",
                                   !.trace = @ \o <<Event("imported", c, Null),
                                                    Event("new", c, id)>>]
                 IN  pl' = OptionalCall(AssignHeld(created, id), "render")
    /\ UNCHANGED <<startVars, reqVars, rw, fs, bd>>

\* the import rejects (the module cannot be fetched or evaluated): render
\* rejects with it
ImportFails(c) ==
    /\ pl.calls[c].pc = "importing"
    /\ pl' = [pl EXCEPT !.calls[c].pc = "failed"]
    /\ UNCHANGED <<startVars, reqVars, rw, fs, bd>>

\* the awaited inner render (or undefined) settles and render returns
RenderReturns(c) ==
    /\ pl.calls[c].pc = "awaiting"
    /\ pl' = [pl EXCEPT !.calls[c].pc = "done"]
    /\ UNCHANGED <<startVars, reqVars, rw, fs, bd>>

\* draw(ctx) { this.plugin?.draw?.(ctx); }
Draw ==
    /\ pl.hostCalls < MaxCalls
    /\ pl' = OptionalCall([pl EXCEPT !.hostCalls = @ + 1,
                                     !.trace = Append(@, Event("call draw", Null, Null))],
                          "draw")
    /\ UNCHANGED <<startVars, reqVars, rw, fs, bd>>

\* destroy() { this.plugin?.destroy?.(); }
Destroy ==
    /\ pl.hostCalls < MaxCalls
    /\ pl' = OptionalCall([pl EXCEPT !.hostCalls = @ + 1,
                                     !.trace = Append(@, Event("call destroy", Null, Null))],
                          "destroy")
    /\ UNCHANGED <<startVars, reqVars, rw, fs, bd>>


(***************************************************************************)
(* Specifications                                                          *)
(***************************************************************************)
NoRequests ==
    /\ inbound = [r \in ReqIds |-> NoReq]
    /\ inState = [r \in ReqIds |-> "none"]
    /\ fwd = [r \in ReqIds |-> <<>>]
    /\ upstream = [r \in ReqIds |-> NoResp]
    /\ upState = [r \in ReqIds |-> "none"]
    /\ upRead = [r \in ReqIds |-> 0]
    /\ res = [r \in ReqIds |-> NoRes]

\* start() not yet invoked, on a host where other processes hold some ports
InitStart ==
    /\ bound \in [Ports -> {Free, Other}]
    /\ Cardinality({p \in Ports : bound[p] = Other}) <= MaxOther
    /\ lockMode \in BOOLEAN
    /\ locked = {}
    /\ sess = [s \in Sessions |-> InitSession]
    /\ alive = TRUE
    /\ NoRequests
    /\ rw = IdleRw
    /\ fs = DefaultFs
    /\ bd = IdleBundle
    /\ pl = IdlePlugin

NextStart ==
    \/ \E s \in Sessions : Start(s)
    \/ \E s \in Sessions : GetProxyPort(s)
    \/ \E s \in Sessions : GetEsbuildPort(s)
    \/ \E s \in Sessions : ResolveEntryPoints(s)
    \/ \E s \in Sessions : Serve(s)
    \/ \E s \in Sessions : Listen(s)
    \/ OtherProcessBinds

SpecStart == InitStart /\ [][NextStart]_vars

\* the locals of a start() that has completed with the default options
ServingSession ==
    LET entry == EntryPoints(DefaultOptions, DefaultFs.listing)
    IN  [pc |-> "Serving", proxyPort |-> PreferredProxyPort,
         esbuildPort |-> PreferredEsbuildPort, host |-> EsbuildHost,
         port |-> PreferredEsbuildPort, wasFree |-> {"internal", "public"},
         opts |-> DefaultOptions, entryPoints |-> entry,
         serveConfig |->
             [port |-> PreferredEsbuildPort, sourcemap |-> TRUE, entryPoints |-> entry,
              bundle |-> getDefaultConfig.bundle, format |-> getDefaultConfig.format,
              target |-> getDefaultConfig.target, preact |-> DefaultOptions.preact]]

\* one start() has completed on a host whose preferred ports were free
Init ==
    /\ bound = [p \in Ports |->
                  IF p = PreferredEsbuildPort THEN <<Serving, "esbuild">>
                  ELSE IF p = PreferredProxyPort THEN <<Serving, "proxy">>
                  ELSE Free]
    /\ lockMode = TRUE
    /\ locked = {PreferredProxyPort, PreferredEsbuildPort}
    /\ sess = [s \in Sessions |->
                 IF s = Serving
                 THEN ServingSession
                 ELSE InitSession]
    /\ alive = TRUE
    /\ NoRequests
    /\ rw = IdleRw
    /\ fs = DefaultFs
    /\ bd = IdleBundle
    /\ pl = IdlePlugin

Next ==
    \/ \E r \in ReqIds, q \in Requests : HandleRequest(r, q)
    \/ \E r \in ReqIds : PipeRequestChunk(r)
    \/ \E r \in ReqIds : PipeRequestEnd(r)
    \/ \E r \in ReqIds, resp \in Responses : InternalResponds(r, resp)
    \/ \E r \in ReqIds : PipeResponseChunk(r)
    \/ \E r \in ReqIds : PipeResponseEnd(r)
    \/ \E r \in ReqIds : InternalStalls(r)
    \/ \E r \in ReqIds : UpstreamError(r)
    \/ \E r \in ReqIds : UpstreamClosed(r)
    \/ \E r \in ReqIds : InboundError(r)

Spec == Init /\ [][Next]_vars

\* node's event loop runs every callback whose event is ready
FairSpec ==
    /\ Spec
    /\ \A r \in ReqIds :
          /\ WF_vars(PipeRequestChunk(r))
          /\ WF_vars(PipeRequestEnd(r))
          /\ WF_vars(\E resp \in Responses : InternalResponds(r, resp))
          /\ WF_vars(PipeResponseChunk(r))
          /\ WF_vars(PipeResponseEnd(r))

\* a build with or without alias mode meets an import
InitResolve ==
    /\ bound = [p \in Ports |-> Free]
    /\ lockMode = TRUE
    /\ locked = {}
    /\ sess = [s \in Sessions |-> InitSession]
    /\ alive = TRUE
    /\ NoRequests
    /\ fs = DefaultFs
    /\ bd = IdleBundle
    /\ pl = IdlePlugin
    /\ rw \in {[stage |-> "start", path |-> path, preact |-> preact,
                plugins |-> <<>>, result |-> NoResult] :
                    path \in Specifiers, preact \in BOOLEAN}

NextResolve == Configure \/ ResolveImport

SpecResolve == InitResolve /\ [][NextResolve]_vars

\* bundle() and one start(), over the option values and working directories
InitEntry ==
    /\ bound = [p \in Ports |-> Free]
    /\ lockMode \in BOOLEAN
    /\ locked = {}
    /\ \E d \in DirOptions, e \in ExtOptions, g \in GlobOptions, pr \in BOOLEAN :
          sess = [s \in Sessions |->
                    IF s = Serving
                    THEN SessionWith([dir |-> d, ext |-> e, glob |-> g, preact |-> pr])
                    ELSE InitSession]
    /\ alive = TRUE
    /\ NoRequests
    /\ rw = IdleRw
    /\ fs \in [listing : Listings, broken : BrokenSets]
    /\ bd = IdleBundle
    /\ pl = IdlePlugin

NextEntry ==
    \/ Start(Serving)
    \/ GetProxyPort(Serving)
    \/ GetEsbuildPort(Serving)
    \/ ResolveEntryPoints(Serving)
    \/ Serve(Serving)
    \/ Listen(Serving)
    \/ \E opts \in BundleOptions : Bundle(opts)
    \/ BundleGlob
    \/ BuildSettles
    \/ BundleReturns
    \/ BundleCatch

SpecEntry == InitEntry /\ [][NextEntry]_vars

\* the generated Plugin: renders that may overlap, and the host's draw and
\* destroy calls
InitPlugin ==
    /\ bound = [p \in Ports |-> Free]
    /\ lockMode = FALSE
    /\ locked = {}
    /\ sess = [s \in Sessions |-> InitSession]
    /\ alive = TRUE
    /\ NoRequests
    /\ rw = IdleRw
    /\ fs = DefaultFs
    /\ bd = IdleBundle
    /\ pl = IdlePlugin

NextPlugin ==
    \/ Tick
    \/ \E c \in RenderCalls : Render(c)
    \/ \E c \in RenderCalls : ImportCompletes(c)
    \/ \E c \in RenderCalls : ImportFails(c)
    \/ \E c \in RenderCalls : RenderReturns(c)
    \/ Draw
    \/ Destroy

SpecPlugin == InitPlugin /\ [][NextPlugin]_vars

\* one start() on a host where another process may hold a preferred port,
\* followed by the requests its proxy server handles
InitLife ==
    /\ \E taken \in {{}, {PreferredProxyPort}, {PreferredEsbuildPort}} :
          bound = [p \in Ports |-> IF p \in taken THEN Other ELSE Free]
    /\ lockMode \in BOOLEAN
    /\ locked = {}
    /\ sess = [s \in Sessions |-> InitSession]
    /\ alive = TRUE
    /\ NoRequests
    /\ rw = IdleRw
    /\ fs = DefaultFs
    /\ bd = IdleBundle
    /\ pl = IdlePlugin

\* the requests followed from startup: the first to arrive
LifeReqIds == {1}

NextLife ==
    \/ Start(Serving)
    \/ GetProxyPort(Serving)
    \/ GetEsbuildPort(Serving)
    \/ ResolveEntryPoints(Serving)
    \/ Serve(Serving)
    \/ Listen(Serving)
    \/ OtherProcessBinds
    \/ \E r \in LifeReqIds, q \in Requests : HandleRequest(r, q)
    \/ \E r \in LifeReqIds : PipeRequestChunk(r)
    \/ \E r \in LifeReqIds : PipeRequestEnd(r)
    \/ \E r \in LifeReqIds, resp \in Responses : InternalResponds(r, resp)
    \/ \E r \in LifeReqIds : PipeResponseChunk(r)
    \/ \E r \in LifeReqIds : PipeResponseEnd(r)
    \/ \E r \in LifeReqIds : InternalStalls(r)
    \/ \E r \in LifeReqIds : UpstreamError(r)
    \/ \E r \in LifeReqIds : UpstreamClosed(r)
    \/ \E r \in LifeReqIds : InboundError(r)

SpecLife == InitLife /\ [][NextLife]_vars

(***************************************************************************)
(* Properties of the request handler                                       *)
(***************************************************************************)
\* the request target's query holds a parameter named "dev": the token "dev"
\* right after "?" or "&", followed by "=", "&" or the end
HasDevQuery(url) ==
    \E i \in 2..Len(url) :
        /\ url[i] = "dev"
        /\ url[i - 1] \in {"?", "&"}
        /\ \E k \in 1..(i - 1) : url[k] = "?"
        /\ i = Len(url) \/ url[i + 1] \in {"=", "&"}

Handled(r) == inbound[r] # NoReq
DevRequest(r) == Handled(r) /\ HasDevQuery(inbound[r].url)
PlainRequest(r) == Handled(r) /\ ~HasDevQuery(inbound[r].url)

DevHeadExpected ==
    [status |-> 200,
     headers |-> [n \in {"content-type", "access-control-allow-origin"} |->
                    IF n = "content-type" THEN "application/javascript" ELSE "*"]]

\* C1: a request whose query holds a dev parameter (any value, method, path) is
\* answered with status 200, content-type application/javascript,
\* access-control-allow-origin *, and the bootstrap module for its path as the
\* whole body; no request to the internal bundler is opened for it.
C1_DevBranch ==
    \A r \in ReqIds :
        DevRequest(r) =>
            /\ res[r].heads = <<DevHeadExpected>>
            /\ res[r].body = templateForPathname(ParseUrl(inbound[r].url).pathname)
            /\ Contains(res[r].body, "class Plugin")
            /\ Contains(res[r].body, "/PluginTemplate.js?")
            /\ res[r].state = "ended"
            /\ fwd[r] = <<>>

C1_Witness ==
    \E r \in ReqIds :
        /\ Handled(r)
        /\ inbound[r].url = <<"/main.js", "?", "v", "=", "1", "&", "dev", "=">>
        /\ res[r].state = "ended"

\* the headers the client must get for an internal response: every header of
\* the internal response under its lower-cased name, except that
\* access-control-allow-origin is "*"
ForwardedHeadersExpected(resp, headers) ==
    /\ DOMAIN headers =
          {Lower(resp.raw[i][1]) : i \in 1..Len(resp.raw)} \cup {"access-control-allow-origin"}
    /\ headers["access-control-allow-origin"] = "*"
    /\ \A i \in 1..Len(resp.raw) :
          Lower(resp.raw[i][1]) # "access-control-allow-origin"
              => headers[Lower(resp.raw[i][1])] = resp.raw[i][2]

\* C2: for a request without a dev parameter, the status written to the client
\* is the internal response's, the headers are the internal response's plus
\* access-control-allow-origin *, and the body bytes written are the bytes
\* received from the internal bundler, in order, nothing dropped or duplicated:
\* the whole body once the internal response has ended.
C2_ForwardedResponse ==
    \A r \in ReqIds :
        PlainRequest(r) =>
            /\ upstream[r] = NoResp => res[r].heads = <<>> /\ res[r].body = <<>>
            /\ upstream[r] # NoResp =>
                  /\ Len(res[r].heads) = 1
                  /\ res[r].heads[1].status = upstream[r].status
                  /\ ForwardedHeadersExpected(upstream[r], res[r].heads[1].headers)
                  /\ Len(res[r].body) <= Len(upstream[r].body)
                  /\ res[r].body = SubSeq(upstream[r].body, 1, Len(res[r].body))
                  /\ upState[r] = "ended" =>
                        res[r].body = upstream[r].body /\ res[r].state = "ended"

C2_Witness ==
    \E r \in ReqIds :
        /\ PlainRequest(r)
        /\ upState[r] = "ended"
        /\ upstream[r].status = 200
        /\ res[r].body = <<"c1", "c2">>
        /\ res[r].state = "ended"

\* C3: for a request without a dev parameter exactly one request is opened to
\* the internal bundler's host and port, with the inbound method, the full
\* path and query, and the inbound headers; its body is the inbound body's
\* bytes so far, in order, and it is ended exactly when the inbound body has
\* ended, with the whole body sent.
C3_ForwardedRequest ==
    \A r \in ReqIds :
        PlainRequest(r) =>
            /\ Len(fwd[r]) = 1
            /\ fwd[r][1].options =
                  [hostname |-> sess[Serving].host, port |-> sess[Serving].port,
                   path |-> inbound[r].url, method |-> inbound[r].method,
                   headers |-> inbound[r].headers]
            /\ Len(fwd[r][1].body) <= Len(inbound[r].body)
            /\ fwd[r][1].body = SubSeq(inbound[r].body, 1, Len(fwd[r][1].body))
            /\ fwd[r][1].ended <=> inState[r] = "ended"
            /\ fwd[r][1].ended => fwd[r][1].body = inbound[r].body

C3_Witness ==
    \E r \in ReqIds :
        /\ PlainRequest(r)
        /\ inbound[r].method = "POST"
        /\ fwd[r][1].ended
        /\ fwd[r][1].body = <<"b1", "b2">>

\* a transport error has hit the forwarding of request r
UpstreamFailed(r) == upState[r] \in {"closed", "error"}
TransportError(r) == UpstreamFailed(r) \/ inState[r] = "aborted"

\* C4: a transport error while forwarding (internal bundler unreachable,
\* connection reset, body stream error) never crashes the proxy server: after
\* it the process runs and the session is Serving.
C4_NoCrashOnTransportError ==
    (\E r \in ReqIds : TransportError(r)) =>
        alive /\ sess[Serving].pc = "Serving"

\* C5: after a transport error while forwarding, the client's response is
\* eventually terminated as aborted; it is never left pending forever and
\* never completed as a successful full response.
C5_ErrorSurfacesAsAbort ==
    \A r \in ReqIds :
        /\ [](UpstreamFailed(r) => res[r].state # "ended")
        /\ (UpstreamFailed(r) ~> res[r].state = "aborted")

\* C6: a forwarded request's response completes unless its own internal
\* response stalls, its own transport fails or the process has ended: the
\* other request's internal response stalling for ever does not hold it back.
C6_CompleteIndependently ==
    \A r \in ReqIds :
        (fwd[r] # <<>>) ~>
            \/ res[r].state \in {"ended", "aborted"}
            \/ upState[r] \in {"stalled", "closed", "error"}
            \/ ~alive

C6_Witness ==
    /\ upState[1] = "stalled"
    /\ res[1].state = "open"
    /\ Len(res[1].heads) = 1
    /\ res[2].state = "ended"
    /\ upState[2] = "ended"
    /\ res[2].body = <<"c1", "c2">>

(***************************************************************************)
(* Properties of the startup sequence                                      *)
(***************************************************************************)
\* C7: once start() has been invoked twice, both sessions always succeed:
\* neither esbuild.serve nor listen fails with a port conflict, the process
\* keeps running, and two Serving sessions hold different public ports.
C7_BothStartsSucceed ==
    (\A s \in Sessions : sess[s].pc # "idle") =>
    /\ alive
    /\ \A s \in Sessions : sess[s].pc \notin {"rejected", "listenFailed"}
    /\ \A s, t \in Sessions :
          s # t /\ sess[s].pc = "Serving" /\ sess[t].pc = "Serving"
              => sess[s].proxyPort # sess[t].proxyPort

StartsWithHttpScheme(path) ==
    /\ Len(path) >= 2
    /\ path[1] = "http"
    /\ path[2] = "://" \/ (Len(path) >= 3 /\ path[2] = "s" /\ path[3] = "://")

\* C9: a specifier that starts with http:// or https:// is externalized with
\* its path unchanged, with alias mode on or off; the http-external callback
\* is registered before every alias callback.
C9_HttpExternalized ==
    /\ rw.stage \in {"configured", "resolved"} =>
          /\ rw.plugins[1].name = "http-external"
          /\ \A i \in 2..Len(rw.plugins) : rw.plugins[i].name = "preact"
          /\ Len(rw.plugins) > 1 <=> rw.preact
    /\ rw.stage = "resolved" /\ StartsWithHttpScheme(rw.path) =>
          /\ rw.result.matched
          /\ rw.result.external
          /\ rw.result.path = rw.path
          /\ Classify(rw.result) = "externalize"

C9_Witness ==
    /\ rw.stage = "resolved"
    /\ rw.preact
    /\ rw.path = <<"http", "://", "react">>
    /\ rw.result.external

React == <<"react">>
ReactDom == <<"react", "-dom">>
ReactDomTestUtils == <<"react", "-dom", "/test-utils">>

\* C10: with alias mode on, exactly react, react-dom and react-dom/test-utils
\* are redirected, to a non-empty target other than the input (react and
\* react-dom to the compatibility entry, react-dom/test-utils to the test
\* utilities); with alias mode off the three are unchanged.
C10_AliasRedirects ==
    rw.stage = "resolved" =>
        /\ rw.preact /\ rw.path \in {React, ReactDom} =>
              /\ Classify(rw.result) = "redirect"
              /\ rw.result.path = <<"node_modules", "/preact", "/compat">>
        /\ rw.preact /\ rw.path = ReactDomTestUtils =>
              /\ Classify(rw.result) = "redirect"
              /\ rw.result.path = <<"node_modules", "/preact", "/test-utils">>
        /\ Classify(rw.result) = "redirect" =>
              /\ rw.preact
              /\ rw.path \in {React, ReactDom, ReactDomTestUtils}
              /\ rw.result.path # <<>>
              /\ rw.result.path # rw.path
        /\ ~rw.preact /\ rw.path \in {React, ReactDom, ReactDomTestUtils} =>
              Classify(rw.result) = "unchanged"

C10_Witness ==
    /\ rw.stage = "resolved"
    /\ rw.preact
    /\ rw.path = ReactDomTestUtils
    /\ Classify(rw.result) = "redirect"

(***************************************************************************)
(* C16: what handling a request leaves alone                               *)
(***************************************************************************)
\* the state of request k: the request/response pair and its connection to
\* the bundler
OwnState(k) ==
    <<inbound[k], inState[k], res[k], fwd[k], upstream[k], upState[k], upRead[k]>>

\* C16: once the server is Serving, no step of handling a request changes the
\* internal host, the internal port, the public port or the entry points, and
\* each step changes the state of at most one request: its own request,
\* response and forwarding connection, never those of an overlapping request.
C16_RequestFrame ==
    [][ /\ sess' = sess
        /\ \E r \in ReqIds :
              \A k \in ReqIds \ {r} : OwnState(k)' = OwnState(k) ]_vars

(***************************************************************************)
(* C17: the CORS header of every response                                  *)
(***************************************************************************)
AcaoNames(headers) ==
    {n \in DOMAIN headers : Lower(n) = "access-control-allow-origin"}

\* C17: every response head written carries exactly one
\* access-control-allow-origin header and its value is *; in the forwarding
\* branch an access-control-allow-origin of the internal response is replaced,
\* and every other header of the internal response is passed through with its
\* value.
C17_SingleCorsHeader ==
    \A r \in ReqIds : \A i \in 1..Len(res[r].heads) :
        LET h == res[r].heads[i].headers IN
        /\ Cardinality(AcaoNames(h)) = 1
        /\ \A n \in AcaoNames(h) : h[n] = "*"
        /\ PlainRequest(r) =>
              /\ upstream[r] # NoResp
              /\ \A j \in 1..Len(upstream[r].raw) :
                    LET name == Lower(upstream[r].raw[j][1]) IN
                    name # "access-control-allow-origin" =>
                        name \in DOMAIN h /\ h[name] = upstream[r].raw[j][2]
              /\ \A n \in DOMAIN h \ AcaoNames(h) :
                    \E j \in 1..Len(upstream[r].raw) : Lower(upstream[r].raw[j][1]) = n

\* a forwarded response whose internal head had its own
\* access-control-allow-origin
C17_Witness ==
    \E r \in ReqIds :
        /\ PlainRequest(r)
        /\ upstream[r] # NoResp
        /\ \E j \in 1..Len(upstream[r].raw) :
              /\ Lower(upstream[r].raw[j][1]) = "access-control-allow-origin"
              /\ upstream[r].raw[j][2] # "*"
        /\ Len(res[r].heads) = 1
        /\ res[r].state = "ended"

(***************************************************************************)
(* C18: one head per response, written by the branch of the request        *)
(***************************************************************************)
\* C18: the head of a response is written at most once; a dev request is
\* answered by the dev branch and opens no connection to the bundler; a
\* request without dev gets its head only from the forwarding branch, after
\* the head of the internal response arrived; no body byte of a forwarded
\* response is written before its head.
C18_HeadOnce ==
    \A r \in ReqIds :
        /\ Len(res[r].heads) <= 1
        /\ DevRequest(r) =>
              /\ Len(res[r].heads) = 1
              /\ res[r].heads[1].status = DevStatus
              /\ fwd[r] = <<>>
              /\ upstream[r] = NoResp
        /\ PlainRequest(r) =>
              /\ Len(fwd[r]) = 1
              /\ res[r].heads # <<>> => upstream[r] # NoResp /\ upState[r] # "none"
              /\ res[r].body # <<>> => res[r].heads # <<>>

\* a dev request and a forwarded request, overlapping, each with its one head
\* and body
C18_Witness ==
    \E r, k \in ReqIds :
        /\ DevRequest(r) /\ Len(res[r].heads) = 1
        /\ PlainRequest(k) /\ Len(res[k].heads) = 1 /\ res[k].body # <<>>

(***************************************************************************)
(* C11: bundle exits exactly when the build fails                          *)
(***************************************************************************)
BundleSettled == bd.pc \in {"returned", "exited"}

\* C11: once bundle is over, it has ended the process with a non-zero exit
\* code if the bundler rejected the build, and has returned undefined without
\* exiting if the bundler resolved; the bundler rejected exactly when an entry
\* point does not build, so a failed build never ends as a success.
C11_ExitIffBuildFails ==
    /\ bd.exited => bd.pc = "exited" /\ bd.code # 0 /\ bd.settled = "rejected"
    /\ BundleSettled =>
          /\ bd.settled = "rejected" => bd.exited /\ bd.code # 0 /\ bd.returned = "none"
          /\ bd.settled = "resolved" => ~bd.exited /\ bd.returned = "undefined"
          /\ bd.settled # "none"
          /\ (\E f \in fs.broken : Includes(bd.entryPoints, <<PluginDir, "/">> \o f))
                => bd.exited

C11_Witness ==
    /\ bd.pc = "exited"
    /\ bd.settled = "rejected"
    /\ bd.code = 1
    /\ Len(bd.entryPoints) >= 2

(***************************************************************************)
(* C12: an empty entry set is not an error                                 *)
(***************************************************************************)
PastResolution(s) == sess[s].pc \in {"serve", "listen", "Serving"}

\* C12: when the glob of bundle matches nothing, esbuild.build is still called,
\* with an empty entry set, and bundle does not exit; when start resolves no
\* entry point (glob mode, or directory mode on an existing directory without a
\* file of an allowed extension) it goes on to esbuild.serve with an empty
\* entry set and to Serving; start stops before serve only when the directory
\* cannot be read.
C12_EmptyEntrySetIsNoError ==
    /\ bd.pc \notin {"idle", "glob"} /\ bd.entryPoints = <<>> =>
          /\ bd.buildArgs # NoConfig
          /\ bd.buildArgs.entryPoints = <<>>
          /\ bd.pc \in {"build", "resolved", "returned"}
          /\ ~bd.exited
    /\ \A s \in Sessions :
          /\ sess[s].pc \in {"rejected", "listenFailed"} =>
                sess[s].opts.dir = MissingDir
          /\ sess[s].pc \in {"listen", "Serving"} /\ sess[s].entryPoints = <<>> =>
                sess[s].serveConfig # NoConfig /\ sess[s].serveConfig.entryPoints = <<>>

\* bundle has returned and start is Serving, both with no entry point, start
\* in directory mode on a directory that has files
C12_Witness ==
    /\ bd.pc = "returned" /\ bd.entryPoints = <<>> /\ bd.buildArgs.entryPoints = <<>>
    /\ fs.listing # <<>>
    /\ \E s \in Sessions :
          /\ sess[s].pc = "Serving"
          /\ sess[s].opts.dir = PluginDir
          /\ sess[s].serveConfig.entryPoints = <<>>

(***************************************************************************)
(* C13: which files become entry points                                    *)
(***************************************************************************)
AllowedExtensions(opts) ==
    IF opts.ext.given THEN {opts.ext.list[i] : i \in 1..Len(opts.ext.list)}
    ELSE {".js", ".ts"}

\* the positions of the listing whose file has an allowed extension
AllowedPositions(opts, listing) ==
    {i \in 1..Len(listing) :
        /\ Len(listing[i]) >= 2
        /\ listing[i][Len(listing[i])] \in AllowedExtensions(opts)}

\* C13: when dir is given, with or without glob, the entry points are the
\* files of the directory whose extension is in the allow-list (.js and .ts
\* when none is given), each joined to the directory path, in the order of the
\* listing, and the glob is not consulted; when dir is not given they are the
\* expansion of the glob.
C13_EntryPoints ==
    \A s \in Sessions :
        PastResolution(s) =>
            LET opts == sess[s].opts
                ep == sess[s].entryPoints
                pos == AllowedPositions(opts, fs.listing)
            IN  /\ opts.dir # "" =>
                      /\ Len(ep) = Cardinality(pos)
                      /\ \A i \in pos :
                            ep[Cardinality({j \in pos : j <= i})]
                                = <<opts.dir, "/">> \o fs.listing[i]
                /\ opts.dir = "" => ep = fastGlob(opts.glob, fs.listing)

\* dir and a glob that would match other files are both given: the entry
\* points are the three files of the directory with a default extension
C13_Witness ==
    \E s \in Sessions :
        /\ sess[s].pc = "Serving"
        /\ sess[s].opts.dir = PluginDir
        /\ ~sess[s].opts.ext.given
        /\ Len(sess[s].opts.glob) = 2
        /\ sess[s].entryPoints =
              << <<"plugins", "/", "a", ".ts">>, <<"plugins", "/", "b", ".js">>,
                 <<"plugins", "/", "c", ".d", ".ts">> >>

(***************************************************************************)
(* C14: draw, destroy and render of the generated Plugin                   *)
(***************************************************************************)
\* the instance this.plugin holds when event i of the trace happens: the one
\* of the last new before it, null when there is none
HeldAt(i) ==
    LET news == {j \in 1..(i - 1) : pl.trace[j].op = "new"}
    IN  IF news = {} THEN 0
        ELSE pl.trace[CHOOSE j \in news : \A k \in news : k <= j].instance

HostCall(method) == IF method = "draw" THEN "call draw" ELSE "call destroy"

\* event i is a call of the method on an instance, made by the Plugin
Forwarded(i, method) ==
    /\ i <= Len(pl.trace)
    /\ pl.trace[i].op = method

\* C14: a draw or destroy of the Plugin raises no error; it calls the method
\* of the held instance when an instance is held and has the method, and calls
\* nothing otherwise. An inner render happens only in a render call whose
\* import of /PluginTemplate.js?<cache bust> has completed and which has
\* created a new instance of the default export, after both.
C14_OptionalForwarding ==
    /\ ~pl.threw
    /\ \A i \in 1..Len(pl.trace) : \A method \in {"draw", "destroy"} :
          /\ pl.trace[i].op = HostCall(method) =>
                IF HeldAt(i) # 0 /\ method \in pl.instances[HeldAt(i)].caps
                THEN Forwarded(i + 1, method) /\ pl.trace[i + 1].instance = HeldAt(i)
                ELSE ~Forwarded(i + 1, "draw") /\ ~Forwarded(i + 1, "destroy")
          /\ pl.trace[i].op = method => i > 1 /\ pl.trace[i - 1].op = HostCall(method)
    /\ \A i \in 1..Len(pl.trace) :
          pl.trace[i].op = "render" =>
              /\ i > 2
              /\ pl.trace[i - 1].op = "new"
              /\ pl.trace[i - 1].instance = Cardinality({j \in 1..(i - 1) : pl.trace[j].op = "new"})
              /\ pl.trace[i - 2] = [op |-> "imported", call |-> pl.trace[i - 1].call, instance |-> 0]
              /\ LET call == pl.calls[pl.trace[i - 1].call] IN
                    /\ call.modulePath = <<"/PluginTemplate.js?", call.cacheBust>>
                    /\ call.pc \in {"awaiting", "done"}
                    /\ \E j \in 1..(i - 3) :
                          pl.trace[j] = [op |-> "import", call |-> pl.trace[i - 1].call,
                                         instance |-> 0]

\* a draw that was forwarded, a draw or destroy that did nothing although an
\* instance was held, and a call made while nothing was held
C14_Witness ==
    /\ \E i \in 1..Len(pl.trace) : pl.trace[i].op = "draw"
    /\ \E i \in 1..Len(pl.trace) :
          /\ pl.trace[i].op \in {"call draw", "call destroy"}
          /\ HeldAt(i) # 0
          /\ i = Len(pl.trace)
    /\ \E i \in 1..Len(pl.trace) : pl.trace[i].op = "call destroy" /\ HeldAt(i) = 0
    /\ \E i \in 1..Len(pl.trace) : pl.trace[i].op = "render"

(***************************************************************************)
(* C19: overlapping render calls                                           *)
(***************************************************************************)
\* the positions of the trace where the inner render is called in render call c
InnerRenders(c) ==
    {i \in 2..Len(pl.trace) :
        /\ pl.trace[i].op = "render"
        /\ pl.trace[i - 1].op = "new"
        /\ pl.trace[i - 1].call = c}

Overlapped ==
    \E i, j \in 1..Len(pl.trace) :
        /\ i < j
        /\ pl.trace[i].op = "import" /\ pl.trace[j].op = "import"
        /\ \A k \in 1..j : ~(pl.trace[k].op = "imported" /\ pl.trace[k].call = pl.trace[i].call)

\* C19: also when render calls overlap, a render call whose import completed
\* calls the inner render once when its instance has a render method (and
\* never more than once), on the instance it created; this.plugin is the
\* instance of the render call whose import completed last, and draw and
\* destroy go to it; replacing the held instance calls no destroy.
C19_OverlappingRenders ==
    /\ \A c \in RenderCalls :
          /\ Cardinality(InnerRenders(c)) <= 1
          /\ pl.calls[c].pc \in {"awaiting", "done"} =>
                /\ pl.calls[c].instance # 0
                /\ pl.instances[pl.calls[c].instance].by = c
                /\ "render" \in pl.instances[pl.calls[c].instance].caps
                      => Cardinality(InnerRenders(c)) = 1
          /\ \A i \in InnerRenders(c) : pl.trace[i].instance = pl.calls[c].instance
          /\ pl.calls[c].pc \in {"idle", "importing", "failed"} => InnerRenders(c) = {}
    /\ \A c, d \in RenderCalls :
          c # d /\ pl.calls[c].instance # 0 => pl.calls[c].instance # pl.calls[d].instance
    /\ pl.plugin = HeldAt(Len(pl.trace) + 1)
    /\ \A i \in 1..Len(pl.trace) :
          /\ pl.trace[i].op \in {"draw", "destroy"} => pl.trace[i].instance = HeldAt(i)
          /\ pl.trace[i].op = "destroy" => i > 1 /\ pl.trace[i - 1].op = "call destroy"

\* two renders overlapped, the import of the first completed last, each called
\* the inner render of its own instance, and a draw went to the instance of
\* the first
C19_Witness ==
    /\ Overlapped
    /\ pl.calls[1].instance = 2 /\ pl.calls[2].instance = 1
    /\ InnerRenders(1) # {} /\ InnerRenders(2) # {}
    /\ pl.plugin = 2
    /\ \E i \in 1..Len(pl.trace) : pl.trace[i].op = "draw" /\ pl.trace[i].instance = 2

(***************************************************************************)
(* C15: the order of startup, and where requests are forwarded             *)
(***************************************************************************)
\* the steps of start in the order of the claim
StartupSteps == <<"idle", "getProxyPort", "getEsbuildPort", "entryPoints", "serve", "listen", "Serving">>

StepOf(pc) == CHOOSE i \in 1..Len(StartupSteps) : StartupSteps[i] = pc

PortsAcquired(s) == sess[s].proxyPort \in Ports /\ sess[s].esbuildPort \in Ports

ServeReturned(s) ==
    /\ sess[s].serveConfig # NoConfig
    /\ sess[s].host = "0.0.0.0"
    /\ sess[s].port \in Ports
    /\ bound[sess[s].port] = <<s, "esbuild">> \/ ~alive

StartupOrderNow ==
    \A s \in Sessions :
        /\ sess[s].pc \in {"serve", "listen", "Serving"} => PortsAcquired(s)
        /\ sess[s].serveConfig # NoConfig =>
              /\ PortsAcquired(s)
              /\ sess[s].serveConfig.entryPoints = sess[s].entryPoints
              /\ sess[s].serveConfig.port = sess[s].esbuildPort
        /\ sess[s].pc \in {"listen", "Serving"} => ServeReturned(s)
        /\ (\E p \in Ports : bound[p] = <<s, "proxy">>) =>
              /\ sess[s].pc = "Serving"
              /\ ServeReturned(s)
              /\ bound[sess[s].proxyPort] = <<s, "proxy">>
        /\ sess[s].pc = "Serving" /\ alive => bound[sess[s].proxyPort] = <<s, "proxy">>

ForwardedToServeAddress ==
    \A r \in ReqIds :
        /\ Handled(r) => sess[1].pc = "Serving" /\ ServeReturned(1)
        /\ \A i \in 1..Len(fwd[r]) :
              /\ fwd[r][i].options.hostname = sess[1].host
              /\ fwd[r][i].options.port = sess[1].port
              /\ fwd[r][i].options.port \in Ports

====
